---- MODULE Spec2Model ----
(***************************************************************************)
(* Budget dashboard: the session gate (AuthContext), the application shell *)
(* (App.tsx) and the store component BudgetTracker (Dashboard), together   *)
(* with the remote service the store talks to through fetch().             *)
(*                                                                         *)
(* The store is one React component.  Its state lives in useState cells;   *)
(* every event handler and every continuation after an await runs to       *)
(* completion before the next one starts, so each is one action here.  An  *)
(* asynchronous handler is cut at its await: the part before it is the     *)
(* action that issues the request, the part after it is the action that    *)
(* handles the response.  What a continuation reads from its closure (the  *)
(* currentMonth and tempBudgets of the render that created the handler)    *)
(* travels in the request record.                                          *)
(***************************************************************************)
EXTENDS Integers, Sequences, FiniteSets, TLC

\* ---------------------------------------------------------------- bounds

\* Requests that may be awaiting their response at one time.
MaxInFlight == 5
\* Store instances (mounts of BudgetTracker) in one run.
MaxSessions == 2
\* Month selections, category edits and budget saves in one run.
MaxSelects == 1
MaxEdits == 2
MaxSaves == 1
\* Statement uploads in one run.
MaxUploads == 1
\* The bits of a number's significand (an IEEE-754 double has 53).
MantissaBits == 7

\* ------------------------------------------------------- program constants

\* A sample of the ten categories of the category list.
categories == {"Groceries", "Shopping"}

\* useState<number | null>(null) of editingTransaction; IDs are positive.
NoTransaction == 0

\* token: string | null, and what localStorage.getItem gives for no entry.
NoToken == "null"

\* No alert has been shown.
NoAlert == "none"

\* An object without entries: the {} of useState<Summary>({}) and
\* useState<Budgets>({}).
EmptyMap == [c \in {} |-> 0]

\* ------------------------------------------------------------ environment

\* The token a login hands over (the store never reads it).
Tokens == {"t1"}

\* The strings login accepts (newToken: string): the empty one as well.
TokenStrings == {"t1", "t2", ""}

\* new Date().toISOString().slice(0, 7) at mount: the page is opened in the
\* month of the newest statement (ThisMonth) or in the month after it.
ThisMonth == "2024-03"

LaterMonth == "2024-04"

ClockMonths == {ThisMonth, LaterMonth}

\* GET /months: the month keys, newest first.
SrvMonths == <<"2024-03", "2024-02">>

\* The transactions the service holds (their category is srvCategory[ID]).
SrvTransactions ==
  << [ID |-> 1, Date |-> "2024-03", Amount |-> 10],
     [ID |-> 2, Date |-> "2024-03", Amount |-> 20],
     [ID |-> 3, Date |-> "2024-02", Amount |-> 40] >>

TransactionIds == {SrvTransactions[k].ID : k \in 1..Len(SrvTransactions)}

\* The values typed into a budget input.
BudgetValues == {20}

VARIABLES
  \* AuthProvider
  isAuthenticated, token, storage, restored,
  \* BudgetTracker (the instance mounted now; inst counts the mounts)
  inst, currentMonth, summary, transactions, budgets, availableMonths,
  loading, editingBudgets, tempBudgets, editingTransaction, totals,
  \* window.alert: the message shown last
  alertMsg,
  \* requests awaiting their response, in the order they were issued
  net,
  \* the user's month selections, category edits, budget saves and uploads
  \* so far
  nSelects, nEdits, nSaves, nUploads,
  \* the remote service
  srvCategory, srvBudgets,
  \* the clock: the month new Date() gives
  today

authVars == <<isAuthenticated, token, storage, restored>>
storeVars == <<currentMonth, summary, transactions, budgets, availableMonths,
               loading, editingBudgets, tempBudgets, editingTransaction, totals>>
srvVars == <<srvCategory, srvBudgets>>
useVars == <<nSelects, nEdits, nSaves, nUploads>>
vars == <<authVars, inst, storeVars, alertMsg, net, useVars, srvVars, today>>

\* ---------------------------------------------------------------- helpers

Range(s) == {s[k] : k \in 1..Len(s)}

Remove(s, i) == [k \in 1..(Len(s) - 1) |-> IF k < i THEN s[k] ELSE s[k + 1]]

RECURSIVE SumOver(_, _)
\* Array.prototype.reduce((sum, x) => sum + f[x], 0) over the keys in S.
SumOver(f, S) ==
  IF S = {} THEN 0
  ELSE LET x == CHOOSE y \in S : TRUE IN f[x] + SumOver(f, S \ {x})

\* { ...prev, [key]: value }
Put(map, key, value) ==
  [c \in (DOMAIN map) \cup {key} |-> IF c = key THEN value ELSE map[c]]

\* -------------------------------------------------------------- AuthContext

\* if (savedToken), if (token): null and the empty string are falsy.
Truthy(s) == s # NoToken /\ s # ""

\* getAuthHeaders(): Content-Type always, Authorization only with a token.
getAuthHeaders ==
  IF Truthy(token)
  THEN [ContentType |-> "application/json", Authorization |-> "Bearer " \o token]
  ELSE [ContentType |-> "application/json", Authorization |-> NoToken]

\* ------------------------------------------------------------ the requests

\* One call of fetch(): what is sent (kind, month, id, category, body, auth)
\* and what the awaiting continuation holds in its closure (inst, month, body).
Request(kind, instance, month, id, category, body) ==
  [kind |-> kind, inst |-> instance, month |-> month, id |-> id,
   category |-> category, body |-> body,
   \* none of the store's fetch calls passes an Authorization header
   auth |-> NoToken,
   \* a write: the service has applied it
   answered |-> FALSE]

fetchSummaryReq(instance, month) ==
  Request("summary", instance, month, NoTransaction, "", EmptyMap)

fetchTransactionsReq(instance, month) ==
  Request("transactions", instance, month, NoTransaction, "", EmptyMap)

fetchBudgetsReq(instance, month) ==
  Request("budgets", instance, month, NoTransaction, "", EmptyMap)

fetchAvailableMonthsReq(instance, month) ==
  Request("months", instance, month, NoTransaction, "", EmptyMap)

\* useEffect(.., [currentMonth]): the four fetches of a mount or month change.
MonthEffect(instance, month) ==
  << fetchSummaryReq(instance, month), fetchTransactionsReq(instance, month),
     fetchBudgetsReq(instance, month), fetchAvailableMonthsReq(instance, month) >>

\* As Live, were the state cells shared by every mount (a module-level store).
LiveInAnySession(r) == isAuthenticated

\* A continuation's setState calls reach only the instance that is mounted:
\* BudgetTracker is rendered only while authenticated, and every mount is a
\* new instance with its own state cells.
Live(r) == isAuthenticated /\ r.inst = inst

\* ------------------------------------------------------------- the numbers

\* A number is a binary floating-point value: an integer count of units that
\* is held exactly while it fits the significand, and is rounded to the
\* nearest value that does (ties to the even significand) when it does not.
RECURSIVE Pow2(_)
Pow2(n) == IF n = 0 THEN 1 ELSE 2 * Pow2(n - 1)

\* Below this magnitude every integer is representable.
MaxExact == Pow2(MantissaBits)

RECURSIVE Ulp(_, _)
\* The spacing of the representable values around the magnitude x.
Ulp(x, u) == IF x \div u < MaxExact THEN u ELSE Ulp(x, 2 * u)

\* The representable value nearest to the integer x.
Fl(x) ==
  IF 0 - MaxExact < x /\ x < MaxExact THEN x
  ELSE LET a == IF x < 0 THEN 0 - x ELSE x
           u == Ulp(a, 1)
           q == a \div u
           r == a % u
           m == IF 2 * r > u \/ (2 * r = u /\ q % 2 = 1)
                THEN (q + 1) * u ELSE q * u
       IN IF x < 0 THEN 0 - m ELSE m

RECURSIVE Reduce(_, _)
\* values.reduce((sum, v) => sum + v, 0) over the first n values.
Reduce(values, n) ==
  IF n = 0 THEN 0 ELSE Fl(Reduce(values, n - 1) + values[n])

\* The order in which the service writes the keys of a JSON object.
KeyOrder == <<"Groceries", "Shopping", "Other">>

\* Object.keys(obj): the keys in the order they were inserted, which for a
\* parsed response is the order of the body.
ObjectKeys(obj) == SelectSeq(KeyOrder, LAMBDA c : c \in DOMAIN obj)

\* calculateTotals(summaryData), Object.values(summaryData) iterating the keys
\* in this order.
calculateTotalsIn(summaryData, keys) ==
  LET totalSpent == Reduce([k \in 1..Len(keys) |-> summaryData[keys[k]].spent],
                           Len(keys))
      totalBudget == Reduce([k \in 1..Len(keys) |-> summaryData[keys[k]].budget],
                            Len(keys))
  IN [totalSpent |-> totalSpent, totalBudget |-> totalBudget,
      remaining |-> Fl(totalBudget - totalSpent)]

\* calculateTotals(summaryData): the totals setTotals is called with.
calculateTotals(summaryData) ==
  calculateTotalsIn(summaryData, ObjectKeys(summaryData))

\* useEffect(.., [summary]) has run for the summary held.  React runs a
\* pending effect before it handles another event or applies another state
\* update, so every other step waits for it.
EffectsFlushed == totals = calculateTotals(summary)

\* useEffect(() => calculateTotals(summary), [summary]) after a render in
\* which summary has changed.
summaryEffect ==
  /\ ~EffectsFlushed
  /\ totals' = calculateTotals(summary)
  /\ UNCHANGED <<authVars, inst, currentMonth, summary, transactions, budgets,
                 availableMonths, loading, editingBudgets, tempBudgets,
                 editingTransaction, alertMsg, net, useVars, srvVars, today>>

\* The state cells of a new BudgetTracker, after its first effects have run:
\* calculateTotals({}) and fetchSummary's setLoading(true).
MountStore ==
  /\ inst < MaxSessions
  /\ Len(net) + 4 <= MaxInFlight
  /\ inst' = inst + 1
  /\ currentMonth' = today
  /\ summary' = EmptyMap
  /\ transactions' = <<>>
  /\ budgets' = EmptyMap
  /\ availableMonths' = <<>>
  /\ loading' = TRUE
  /\ editingBudgets' = FALSE
  /\ tempBudgets' = EmptyMap
  /\ editingTransaction' = NoTransaction
  /\ totals' = calculateTotals(EmptyMap)
  /\ net' = net \o MonthEffect(inst + 1, today)

\* AppContent renders <Login/> instead of <BudgetTracker/>: the instance is
\* unmounted and its state cells are gone.
UnmountStore ==
  /\ currentMonth' = today
  /\ summary' = EmptyMap
  /\ transactions' = <<>>
  /\ budgets' = EmptyMap
  /\ availableMonths' = <<>>
  /\ loading' = FALSE
  /\ editingBudgets' = FALSE
  /\ tempBudgets' = EmptyMap
  /\ editingTransaction' = NoTransaction
  /\ totals' = calculateTotals(EmptyMap)
  /\ UNCHANGED <<inst, net>>

\* AuthProvider's mount effect: restore the persisted token.
RestoreSession ==
  /\ ~restored
  /\ EffectsFlushed
  /\ restored' = TRUE
  /\ IF Truthy(storage)
     THEN /\ token' = storage
          /\ isAuthenticated' = TRUE
          /\ MountStore
     ELSE /\ UNCHANGED <<token, isAuthenticated, inst, storeVars, net>>
  /\ UNCHANGED <<storage, alertMsg, useVars, srvVars, today>>

login(newToken) ==
  /\ restored
  /\ EffectsFlushed
  /\ ~isAuthenticated
  /\ storage' = newToken
  /\ token' = newToken
  /\ isAuthenticated' = TRUE
  /\ MountStore
  /\ UNCHANGED <<restored, alertMsg, useVars, srvVars, today>>

logout ==
  /\ restored
  /\ EffectsFlushed
  /\ isAuthenticated
  /\ storage' = NoToken
  /\ token' = NoToken
  /\ isAuthenticated' = FALSE
  /\ UnmountStore
  /\ UNCHANGED <<restored, alertMsg, useVars, srvVars, today>>

\* The page is loaded again: AuthProvider is constructed anew, with no store
\* mounted; the continuations of the page that was open never run; what
\* localStorage holds stays.
restart ==
  /\ restored
  /\ EffectsFlushed
  /\ restored' = FALSE
  /\ token' = NoToken
  /\ isAuthenticated' = FALSE
  /\ UnmountStore
  /\ net' = <<>>
  /\ alertMsg' = NoAlert
  /\ UNCHANGED <<storage, useVars, srvVars, today>>

\* ------------------------------------------------------ BudgetTracker: user

HasTransaction(id) == \E k \in 1..Len(transactions) : transactions[k].ID = id

\* The Category shown for transaction id (it is in the list).
CategoryOf(list, id) ==
  (CHOOSE t \in Range(list) : t.ID = id).Category

\* <select value={currentMonth} onChange={e => setCurrentMonth(e.target.value)}>
\* over the options of availableMonths, and the effect on [currentMonth].
selectMonth(month) ==
  /\ isAuthenticated
  /\ month \in Range(availableMonths)
  /\ month # currentMonth
  /\ Len(net) + 4 <= MaxInFlight
  /\ nSelects < MaxSelects
  /\ EffectsFlushed
  /\ currentMonth' = month
  /\ loading' = TRUE
  /\ net' = net \o MonthEffect(inst, month)
  /\ nSelects' = nSelects + 1
  /\ UNCHANGED <<authVars, inst, summary, transactions, budgets, availableMonths,
                 editingBudgets, tempBudgets, editingTransaction, totals,
                 alertMsg, nEdits, nSaves, nUploads, srvVars, today>>

\* The pencil button of a row: setEditingTransaction(transaction.ID).
beginTransactionEdit(id) ==
  /\ isAuthenticated
  /\ HasTransaction(id)
  /\ editingTransaction # id
  /\ EffectsFlushed
  /\ editingTransaction' = id
  /\ UNCHANGED <<authVars, inst, currentMonth, summary, transactions, budgets,
                 availableMonths, loading, editingBudgets, tempBudgets, totals,
                 alertMsg, net, useVars, srvVars, today>>

\* The X button of the row being edited: setEditingTransaction(null).
cancelTransactionEdit ==
  /\ isAuthenticated
  /\ editingTransaction # NoTransaction
  /\ HasTransaction(editingTransaction)
  /\ EffectsFlushed
  /\ editingTransaction' = NoTransaction
  /\ UNCHANGED <<authVars, inst, currentMonth, summary, transactions, budgets,
                 availableMonths, loading, editingBudgets, tempBudgets, totals,
                 alertMsg, net, useVars, srvVars, today>>

\* What updateTransactionCategory does to the store before its await.
UpdateBeforeAwait(transactionId, newCategory) ==
  UNCHANGED <<transactions, editingTransaction>>

\* updateTransactionCategory(transactionId, newCategory) up to its await: the
\* select's onChange (another category) or the check button (the same one) of
\* the row being edited.
updateTransactionCategory(transactionId, newCategory) ==
  /\ isAuthenticated
  /\ editingTransaction = transactionId
  /\ HasTransaction(transactionId)
  /\ newCategory \in categories
  /\ Len(net) + 1 <= MaxInFlight
  /\ nEdits < MaxEdits
  /\ EffectsFlushed
  /\ UpdateBeforeAwait(transactionId, newCategory)
  /\ net' = Append(net, Request("update", inst, currentMonth, transactionId,
                                newCategory, EmptyMap))
  /\ nEdits' = nEdits + 1
  /\ UNCHANGED <<authVars, inst, currentMonth, summary, budgets, availableMonths,
                 loading, editingBudgets, tempBudgets, totals, alertMsg,
                 nSelects, nSaves, nUploads, srvVars, today>>

\* "Edit Budgets": setEditingBudgets(true).
beginBudgetEdit ==
  /\ isAuthenticated
  /\ ~editingBudgets
  /\ EffectsFlushed
  /\ editingBudgets' = TRUE
  /\ UNCHANGED <<authVars, inst, currentMonth, summary, transactions, budgets,
                 availableMonths, loading, tempBudgets, editingTransaction, totals,
                 alertMsg, net, useVars, srvVars, today>>

\* "Cancel": setTempBudgets(budgets); setEditingBudgets(false).
cancelBudgetEdit ==
  /\ isAuthenticated
  /\ editingBudgets
  /\ EffectsFlushed
  /\ tempBudgets' = budgets
  /\ editingBudgets' = FALSE
  /\ UNCHANGED <<authVars, inst, currentMonth, summary, transactions, budgets,
                 availableMonths, loading, editingTransaction, totals,
                 alertMsg, net, useVars, srvVars, today>>

\* The draft input of a category: setTempBudgets(prev => ({...prev, [category]: value})).
editDraft(category, value) ==
  /\ isAuthenticated
  /\ editingBudgets
  /\ EffectsFlushed
  /\ tempBudgets' = Put(tempBudgets, category, value)
  /\ tempBudgets' # tempBudgets
  /\ UNCHANGED <<authVars, inst, currentMonth, summary, transactions, budgets,
                 availableMonths, loading, editingBudgets, editingTransaction,
                 totals, alertMsg, net, useVars, srvVars, today>>

\* saveBudgets() up to its await ("Save"): PUT /budgets with the draft.
saveBudgets ==
  /\ isAuthenticated
  /\ editingBudgets
  /\ Len(net) + 1 <= MaxInFlight
  /\ nSaves < MaxSaves
  /\ EffectsFlushed
  /\ net' = Append(net, Request("save", inst, currentMonth, NoTransaction, "",
                                tempBudgets))
  /\ nSaves' = nSaves + 1
  /\ UNCHANGED <<authVars, inst, storeVars, alertMsg, nSelects, nEdits, nUploads,
                 srvVars, today>>

\* handleFileUpload(event, accountType) up to its await, a file having been
\* chosen in the upload input (disabled while loading): setLoading(true) and
\* POST /upload-csv.
handleFileUpload ==
  /\ isAuthenticated
  /\ ~loading
  /\ Len(net) + 1 <= MaxInFlight
  /\ nUploads < MaxUploads
  /\ EffectsFlushed
  /\ loading' = TRUE
  /\ net' = Append(net, Request("upload", inst, currentMonth, NoTransaction, "",
                                EmptyMap))
  /\ nUploads' = nUploads + 1
  /\ UNCHANGED <<authVars, inst, currentMonth, summary, transactions, budgets,
                 availableMonths, editingBudgets, tempBudgets, editingTransaction,
                 totals, alertMsg, nSelects, nEdits, nSaves, srvVars, today>>

\* --------------------------------------------------------- the remote service

\* GET /transactions?month=: the transactions dated in the month.
TransactionsOf(month, category) ==
  LET s == SelectSeq(SrvTransactions, LAMBDA t : t.Date = month)
  IN [k \in 1..Len(s) |->
        [ID |-> s[k].ID, Date |-> s[k].Date, Category |-> category[s[k].ID],
         Amount |-> s[k].Amount]]

\* CategorySummary.percentage_used: spent / budget x 100, and 0 for budget 0.
PercentageUsed(spent, budget) ==
  IF budget = 0 THEN 0 ELSE (spent * 100) \div budget

\* GET /summary?month=: one CategorySummary per category.
SummaryOf(month, category, budget) ==
  [c \in categories |->
     LET ids == {id \in TransactionIds :
                   \E k \in 1..Len(SrvTransactions) :
                      /\ SrvTransactions[k].ID = id
                      /\ SrvTransactions[k].Date = month
                      /\ category[id] = c}
         amount == [id \in TransactionIds |->
                      (CHOOSE t \in Range(SrvTransactions) : t.ID = id).Amount]
         spent == SumOver(amount, ids)
         limit == IF c \in DOMAIN budget THEN budget[c] ELSE 0
     IN [spent |-> spent, budget |-> limit, remaining |-> limit - spent,
         percentage_used |-> PercentageUsed(spent, limit),
         over_budget |-> spent > limit]]

\* The data a 2xx response to a read carries: what the service holds when
\* the response is delivered.
ResponseData(r) ==
  IF r.kind = "summary" THEN SummaryOf(r.month, srvCategory, srvBudgets)
  ELSE IF r.kind = "transactions" THEN TransactionsOf(r.month, srvCategory)
  ELSE IF r.kind = "budgets" THEN srvBudgets
  ELSE IF r.kind = "months" THEN SrvMonths
  ELSE <<>>

\* The requests that change what the service holds.  (The statement of an
\* upload holds transactions the service has already: new_transactions = 0.)
Writes == {"update", "save", "upload"}

\* The service applies write i (writes are served in any order) and answers
\* it with a 2xx response, success = true.
ServerApply(i) ==
  /\ i \in 1..Len(net)
  /\ net[i].kind \in Writes
  /\ ~net[i].answered
  /\ EffectsFlushed
  /\ LET r == net[i]
     IN /\ net' = [net EXCEPT ![i].answered = TRUE]
        /\ srvCategory' = IF r.kind = "update"
                          THEN [srvCategory EXCEPT ![r.id] = r.category]
                          ELSE srvCategory
        /\ srvBudgets' = IF r.kind = "save"
                         THEN [c \in categories |->
                                 IF c \in DOMAIN r.body THEN r.body[c]
                                 ELSE srvBudgets[c]]
                         ELSE srvBudgets
  /\ UNCHANGED <<authVars, inst, storeVars, alertMsg, useVars, today>>

\* How the await of a request may end: with a 2xx response ("ok"; for a
\* write, the one of the service having applied it); or, the service having
\* changed nothing, with a 2xx response whose body has success = false (a
\* write: "rejected"), with a non-2xx response ("http"), or with fetch()
\* rejecting ("network").
Outcomes(kind) ==
  IF kind \in Writes
  THEN {"ok", "rejected", "http", "network"}
  ELSE {"ok", "http", "network"}

\* The outcomes that run the catch block.
Failed(outcome) == outcome \in {"http", "network"}

\* The await of request i, of this kind, ends with this outcome.
Ends(i, kind, outcome) ==
  /\ i \in 1..Len(net)
  /\ net[i].kind = kind
  /\ outcome \in Outcomes(kind)
  /\ kind \in Writes => (net[i].answered <=> (outcome = "ok"))

\* ------------------------------------- BudgetTracker: after the await

\* fetchSummary(month) after its await: setSummary(data) on a 2xx response,
\* setLoading(false) in every case.
fetchSummaryDone(i, outcome) ==
  /\ Ends(i, "summary", outcome)
  /\ EffectsFlushed
  /\ LET r == net[i] IN
       /\ summary' = IF Live(r) /\ outcome = "ok" THEN ResponseData(r) ELSE summary
       /\ loading' = IF Live(r) THEN FALSE ELSE loading
  /\ net' = Remove(net, i)
  /\ UNCHANGED <<authVars, inst, currentMonth, transactions, budgets,
                 availableMonths, editingBudgets, tempBudgets, editingTransaction,
                 totals, alertMsg, useVars, srvVars, today>>

\* As TransactionsAfterFetch, were the list emptied in the catch block.
TransactionsClearedOnFailure(r, outcome) ==
  IF outcome = "ok" THEN ResponseData(r) ELSE <<>>

\* The transaction list after the await of fetchTransactions:
\* setTransactions(data) on a 2xx response; the catch block only logs.
TransactionsAfterFetch(r, outcome) ==
  IF outcome = "ok" THEN ResponseData(r) ELSE transactions

\* fetchTransactions(month) after its await: setTransactions(data).
fetchTransactionsDone(i, outcome) ==
  /\ Ends(i, "transactions", outcome)
  /\ EffectsFlushed
  /\ LET r == net[i] IN
       transactions' = IF Live(r) THEN TransactionsAfterFetch(r, outcome)
                       ELSE transactions
  /\ net' = Remove(net, i)
  /\ UNCHANGED <<authVars, inst, currentMonth, summary, budgets, availableMonths,
                 loading, editingBudgets, tempBudgets, editingTransaction, totals,
                 alertMsg, useVars, srvVars, today>>

\* fetchBudgets() after its await: setBudgets(data); setTempBudgets(data).
fetchBudgetsDone(i, outcome) ==
  /\ Ends(i, "budgets", outcome)
  /\ EffectsFlushed
  /\ LET r == net[i] IN
       IF Live(r) /\ outcome = "ok"
       THEN /\ budgets' = ResponseData(r)
            /\ tempBudgets' = ResponseData(r)
       ELSE UNCHANGED <<budgets, tempBudgets>>
  /\ net' = Remove(net, i)
  /\ UNCHANGED <<authVars, inst, currentMonth, summary, transactions,
                 availableMonths, loading, editingBudgets, editingTransaction,
                 totals, alertMsg, useVars, srvVars, today>>

\* As AutoSelects, were the newest month selected whenever months arrive.
AutoSelectsAlways(r) == Len(ResponseData(r)) > 0

\* if (currentMonth === '' && data.length > 0), on the currentMonth of the
\* render that called fetchAvailableMonths.
AutoSelects(r) == r.month = "" /\ Len(ResponseData(r)) > 0

\* fetchAvailableMonths() after its await: setAvailableMonths(data), and
\* setCurrentMonth(data[0]) with its effect when no month is selected.
fetchAvailableMonthsDone(i, outcome) ==
  /\ Ends(i, "months", outcome)
  /\ EffectsFlushed
  /\ LET r == net[i] IN
       IF Live(r) /\ outcome = "ok"
       THEN /\ availableMonths' = ResponseData(r)
            /\ IF AutoSelects(r) /\ ResponseData(r)[1] # currentMonth
               THEN /\ currentMonth' = ResponseData(r)[1]
                    /\ loading' = TRUE
                    /\ net' = Remove(net, i) \o MonthEffect(inst, ResponseData(r)[1])
               ELSE /\ UNCHANGED <<currentMonth, loading>>
                    /\ net' = Remove(net, i)
       ELSE /\ UNCHANGED <<availableMonths, currentMonth, loading>>
            /\ net' = Remove(net, i)
  /\ UNCHANGED <<authVars, inst, summary, transactions, budgets, editingBudgets,
                 tempBudgets, editingTransaction, totals, alertMsg, useVars, srvVars, today>>

\* As ApplyCategory, were the new category given to every transaction of the
\* list.
ApplyCategoryToAll(list, transactionId, newCategory) ==
  [k \in 1..Len(list) |-> [list[k] EXCEPT !.Category = newCategory]]

\* prev.map(t => t.ID === transactionId ? { ...t, Category: newCategory } : t)
ApplyCategory(list, transactionId, newCategory) ==
  [k \in 1..Len(list) |->
     IF list[k].ID = transactionId
     THEN [list[k] EXCEPT !.Category = newCategory]
     ELSE list[k]]

\* As TransactionsAfterUpdate, were the new category left in the list when
\* the update fails.
TransactionsKeptAfterUpdate(r, outcome) ==
  IF outcome = "rejected" THEN transactions
  ELSE ApplyCategory(transactions, r.id, r.category)

\* The transaction list after the await of an update: changed in the success
\* branch alone; the catch block and a 2xx with success = false leave it.
TransactionsAfterUpdate(r, outcome) ==
  IF outcome = "ok"
  THEN ApplyCategory(transactions, r.id, r.category)
  ELSE transactions

\* The requests the success branch of updateTransactionCategory issues:
\* fetchSummary(currentMonth), on the currentMonth of the handler's render.
UpdateFollowUp(r, outcome) ==
  IF outcome = "ok" THEN <<fetchSummaryReq(r.inst, r.month)>> ELSE <<>>

UpdateFailedMsg == "Failed to update category. Please try again."

\* The alert of the catch block of updateTransactionCategory.
AlertAfterUpdate(r, outcome) ==
  IF Failed(outcome) THEN UpdateFailedMsg ELSE alertMsg

\* updateTransactionCategory after its await.
updateTransactionCategoryDone(i, outcome) ==
  /\ Ends(i, "update", outcome)
  /\ EffectsFlushed
  /\ LET r == net[i] IN
       /\ transactions' = IF Live(r) THEN TransactionsAfterUpdate(r, outcome)
                          ELSE transactions
       /\ editingTransaction' = IF Live(r) /\ outcome = "ok"
                                THEN NoTransaction ELSE editingTransaction
       /\ loading' = IF Live(r) /\ UpdateFollowUp(r, outcome) # <<>>
                     THEN TRUE ELSE loading
       /\ net' = Remove(net, i) \o UpdateFollowUp(r, outcome)
       /\ alertMsg' = AlertAfterUpdate(r, outcome)
  /\ UNCHANGED <<authVars, inst, currentMonth, summary, budgets, availableMonths,
                 editingBudgets, tempBudgets, totals, useVars, srvVars, today>>

\* As BudgetsAfterSave, were the draft read when the response arrives
\* (setBudgets on the state then, not on the map that was sent).
BudgetsFromCurrentDraft(r, outcome) ==
  IF outcome = "ok" THEN tempBudgets ELSE budgets

\* As BudgetsAfterSave, were setBudgets called before the response is looked at.
BudgetsSetByAnySave(r, outcome) == r.body

\* The confirmed map after the await of a save: setBudgets(tempBudgets) in the
\* success branch, on the tempBudgets that was sent.
BudgetsAfterSave(r, outcome) == IF outcome = "ok" THEN r.body ELSE budgets

\* As DraftAfterSave, were the draft reset to the confirmed map in the catch
\* block.
DraftRevertedAfterSave(r, outcome) ==
  IF Failed(outcome) THEN budgets ELSE tempBudgets

\* The draft after the await of a save: no branch of saveBudgets sets it.
DraftAfterSave(r, outcome) == tempBudgets

\* setEditingBudgets(false) in the success branch alone.
EditingAfterSave(r, outcome) == IF outcome = "ok" THEN FALSE ELSE editingBudgets

\* The requests the success branch of saveBudgets issues:
\* fetchSummary(currentMonth), on the currentMonth of the handler's render.
SaveFollowUp(r, outcome) ==
  IF outcome = "ok" THEN <<fetchSummaryReq(r.inst, r.month)>> ELSE <<>>

SaveFailedMsg == "Failed to update budgets. Please try again."

SaveSucceededMsg == "Budgets updated successfully"

\* The alerts of saveBudgets: of its success branch and of its catch block.
AlertAfterSave(r, outcome) ==
  IF outcome = "ok" THEN SaveSucceededMsg
  ELSE IF Failed(outcome) THEN SaveFailedMsg
  ELSE alertMsg

\* saveBudgets after its await.
saveBudgetsDone(i, outcome) ==
  /\ Ends(i, "save", outcome)
  /\ EffectsFlushed
  /\ LET r == net[i] IN
       /\ budgets' = IF Live(r) THEN BudgetsAfterSave(r, outcome) ELSE budgets
       /\ tempBudgets' = IF Live(r) THEN DraftAfterSave(r, outcome) ELSE tempBudgets
       /\ editingBudgets' = IF Live(r) THEN EditingAfterSave(r, outcome)
                            ELSE editingBudgets
       /\ loading' = IF Live(r) /\ SaveFollowUp(r, outcome) # <<>>
                     THEN TRUE ELSE loading
       /\ net' = Remove(net, i) \o SaveFollowUp(r, outcome)
       /\ alertMsg' = AlertAfterSave(r, outcome)
  /\ UNCHANGED <<authVars, inst, currentMonth, summary, transactions,
                 availableMonths, editingTransaction, totals, useVars, srvVars, today>>

\* The requests the success branch of handleFileUpload issues:
\* fetchSummary(currentMonth), fetchTransactions(currentMonth) and
\* fetchAvailableMonths(), on the currentMonth of the handler's render.
UploadFollowUp(r, outcome) ==
  IF outcome = "ok"
  THEN << fetchSummaryReq(r.inst, r.month), fetchTransactionsReq(r.inst, r.month),
          fetchAvailableMonthsReq(r.inst, r.month) >>
  ELSE <<>>

UploadSucceededMsg == "Success! Processed transactions"

UploadFailedMsg == "Upload failed"

\* The alerts of handleFileUpload: of its success branch, and of its catch
\* block, which a 2xx response with success = false reaches as well.
AlertAfterUpload(r, outcome) ==
  IF outcome = "ok" THEN UploadSucceededMsg ELSE UploadFailedMsg

\* handleFileUpload after its await; setLoading(false) of its finally block
\* comes after the setLoading(true) of the fetchSummary it has called.
handleFileUploadDone(i, outcome) ==
  /\ Ends(i, "upload", outcome)
  /\ Len(Remove(net, i)) + Len(UploadFollowUp(net[i], outcome)) <= MaxInFlight
  /\ EffectsFlushed
  /\ LET r == net[i] IN
       /\ loading' = IF Live(r) THEN FALSE ELSE loading
       /\ net' = Remove(net, i) \o UploadFollowUp(r, outcome)
       /\ alertMsg' = AlertAfterUpload(r, outcome)
  /\ UNCHANGED <<authVars, inst, currentMonth, summary, transactions, budgets,
                 availableMonths, editingBudgets, tempBudgets, editingTransaction,
                 totals, useVars, srvVars, today>>

\* ------------------------------------------- BudgetTracker: what is shown

\* As getProgressColor, were 70 the first value of the yellow band.
getProgressColorBelow(percentage) ==
  IF percentage < 70 THEN "bg-green-500"
  ELSE IF percentage <= 90 THEN "bg-yellow-500"
  ELSE "bg-red-500"

\* getProgressColor(percentage): the class of a progress bar.
getProgressColor(percentage) ==
  IF percentage <= 70 THEN "bg-green-500"
  ELSE IF percentage <= 90 THEN "bg-yellow-500"
  ELSE "bg-red-500"

\* getStatusIcon(data): the icon of a summary card.
getStatusIcon(data) ==
  IF data.over_budget THEN "AlertCircle" ELSE "CheckCircle"

\* The Dashboard's summary cards: per category of the summary, the class of
\* its progress bar and its icon.
Dashboard ==
  [c \in DOMAIN summary |->
     [bar |-> getProgressColor(summary[c].percentage_used),
      icon |-> getStatusIcon(summary[c])]]

\* ------------------------------------------------------------ specification

\* The page has loaded: AuthProvider is constructed and no store is mounted.
Init ==
  /\ isAuthenticated = FALSE
  /\ token = NoToken
  /\ storage \in {NoToken} \cup Tokens
  /\ restored = FALSE
  /\ today \in ClockMonths
  /\ inst = 0
  /\ currentMonth = today
  /\ summary = EmptyMap
  /\ transactions = <<>>
  /\ budgets = EmptyMap
  /\ availableMonths = <<>>
  /\ loading = FALSE
  /\ editingBudgets = FALSE
  /\ tempBudgets = EmptyMap
  /\ editingTransaction = NoTransaction
  /\ totals = calculateTotals(EmptyMap)
  /\ alertMsg = NoAlert
  /\ net = <<>>
  /\ nSelects = 0
  /\ nEdits = 0
  /\ nSaves = 0
  /\ nUploads = 0
  /\ srvCategory = [id \in TransactionIds |-> "Groceries"]
  /\ srvBudgets = [c \in categories |-> 50]

\* The continuations of the four fetches, and the effect on the summary they
\* set.
Network ==
  \/ summaryEffect
  \/ \E i \in 1..MaxInFlight, o \in Outcomes("summary") : fetchSummaryDone(i, o)
  \/ \E i \in 1..MaxInFlight, o \in Outcomes("transactions") :
       fetchTransactionsDone(i, o)
  \/ \E i \in 1..MaxInFlight, o \in Outcomes("budgets") : fetchBudgetsDone(i, o)
  \/ \E i \in 1..MaxInFlight, o \in Outcomes("months") :
       fetchAvailableMonthsDone(i, o)

\* The page loads with the token of an earlier login in storage.
InitStored == Init /\ storage = "t1" /\ today = ThisMonth

\* The page loads in the month of the newest statement.
InitThisMonth == Init /\ today = ThisMonth

\* The session: signing in and out.
Session ==
  \/ RestoreSession
  \/ \E t \in Tokens : login(t)
  \/ logout

\* The rows of the transactions table.
TransactionEdits ==
  \/ \E id \in TransactionIds : beginTransactionEdit(id)
  \/ cancelTransactionEdit
  \/ \E id \in TransactionIds, c \in categories : updateTransactionCategory(id, c)

\* The writes as the service applies them, and the continuation of an update.
UpdateResponses ==
  \/ \E i \in 1..MaxInFlight : ServerApply(i)
  \/ \E i \in 1..MaxInFlight, o \in Outcomes("update") :
       updateTransactionCategoryDone(i, o)

\* The budget editor.
BudgetEdits ==
  \/ beginBudgetEdit
  \/ cancelBudgetEdit
  \/ \E c \in categories, v \in BudgetValues : editDraft(c, v)
  \/ saveBudgets

\* The writes as the service applies them, and the continuation of a save.
SaveResponses ==
  \/ \E i \in 1..MaxInFlight : ServerApply(i)
  \/ \E i \in 1..MaxInFlight, o \in Outcomes("save") : saveBudgetsDone(i, o)

\* The session with every token string, and the page loaded again.
SessionRestarts ==
  \/ RestoreSession
  \/ \E t \in TokenStrings : login(t)
  \/ logout
  \/ restart

\* The upload input, the service applying a write, and the continuation of
\* an upload.
Uploads ==
  \/ handleFileUpload
  \/ \E i \in 1..MaxInFlight : ServerApply(i)
  \/ \E i \in 1..MaxInFlight, o \in Outcomes("upload") : handleFileUploadDone(i, o)

\* The whole program.
Next ==
  \/ SessionRestarts
  \/ handleFileUpload
  \/ \E i \in 1..MaxInFlight, o \in Outcomes("upload") : handleFileUploadDone(i, o)
  \/ \E m \in Range(SrvMonths) : selectMonth(m)
  \/ TransactionEdits
  \/ BudgetEdits
  \/ Network
  \/ \E i \in 1..MaxInFlight : ServerApply(i)
  \/ \E i \in 1..MaxInFlight, o \in Outcomes("update") :
       updateTransactionCategoryDone(i, o)
  \/ \E i \in 1..MaxInFlight, o \in Outcomes("save") : saveBudgetsDone(i, o)

Spec == Init /\ [][Next]_vars

\* Sessions and the month selector: sign in, sign out, select a month, and
\* the four fetches of every mount and month change.
NextMonth ==
  \/ Session
  \/ \E m \in Range(SrvMonths) : selectMonth(m)
  \/ Network

SpecMonth == InitThisMonth /\ [][NextMonth]_vars

\* One session editing categories in the month it opened with.
NextEdit ==
  \/ RestoreSession
  \/ TransactionEdits
  \/ Network
  \/ UpdateResponses

SpecEdit == InitStored /\ [][NextEdit]_vars

\* One session editing categories and selecting months.
NextEditMonth ==
  \/ RestoreSession
  \/ \E m \in Range(SrvMonths) : selectMonth(m)
  \/ TransactionEdits
  \/ Network
  \/ UpdateResponses

SpecEditMonth == InitStored /\ [][NextEditMonth]_vars

\* One session editing and saving budgets.
NextBudget ==
  \/ RestoreSession
  \/ BudgetEdits
  \/ Network
  \/ SaveResponses

SpecBudget == InitStored /\ [][NextBudget]_vars

\* One session uploading a statement and selecting months.
NextUpload ==
  \/ RestoreSession
  \/ \E m \in Range(SrvMonths) : selectMonth(m)
  \/ Uploads
  \/ Network

SpecUpload == InitStored /\ [][NextUpload]_vars

\* Sessions over page loads: sign in with any token string, sign out, load
\* the page again, and the four fetches of every mount.
NextSession ==
  \/ SessionRestarts
  \/ Network

SpecSession == Init /\ [][NextSession]_vars

\* The keys of a summary, and the numbers of its entries: small ones, and
\* one at which the spacing of the representable values becomes 2.
SummaryKeys == Range(KeyOrder)

SpentInputs == {0, 1, MaxExact}

BudgetInputs == {0, 1}

\* The summary mappings calculateTotals is applied to.
SummaryInputs ==
  [SummaryKeys ->
     {[spent |-> sp, budget |-> b, remaining |-> b - sp,
       percentage_used |-> PercentageUsed(sp, b), over_budget |-> sp > b] :
        sp \in SpentInputs, b \in BudgetInputs}]

\* A store that has just been handed one of these summaries: setSummary(data)
\* has been rendered and the effect on [summary] is due.
Handed(summaries) ==
  /\ isAuthenticated = TRUE
  /\ token = "t1"
  /\ storage = "t1"
  /\ restored = TRUE
  /\ today = ThisMonth
  /\ inst = 1
  /\ currentMonth = today
  /\ summary \in summaries
  /\ transactions = <<>>
  /\ budgets = EmptyMap
  /\ availableMonths = <<>>
  /\ loading = FALSE
  /\ editingBudgets = FALSE
  /\ tempBudgets = EmptyMap
  /\ editingTransaction = NoTransaction
  /\ totals = calculateTotals(EmptyMap)
  /\ alertMsg = NoAlert
  /\ net = <<>>
  /\ nSelects = 0
  /\ nEdits = 0
  /\ nSaves = 0
  /\ nUploads = 0
  /\ srvCategory = [id \in TransactionIds |-> "Groceries"]
  /\ srvBudgets = [c \in categories |-> 50]

InitTotals == Handed(SummaryInputs)

\* calculateTotals applied to every summary of SummaryInputs.
NextTotals == summaryEffect

SpecTotals == InitTotals /\ [][NextTotals]_vars

\* Amounts spent that put the percentage used on, just below and just above
\* the limits of the colour bands, against a budget of 100 or of 0.
StatusSpent == {0, 1, 69, 70, 71, 89, 90, 91, 100, 101}

StatusBudgets == {0, 100}

\* The summaries the Dashboard is shown with.
StatusInputs ==
  [categories ->
     {[spent |-> sp, budget |-> b, remaining |-> b - sp,
       percentage_used |-> PercentageUsed(sp, b), over_budget |-> sp > b] :
        sp \in StatusSpent, b \in StatusBudgets}]

InitStatus == Handed(StatusInputs)

\* The Dashboard rendered for every summary of StatusInputs, before and after
\* the effect on [summary].
SpecStatus == InitStatus /\ [][NextTotals]_vars

\* One session editing and saving budgets, and signing out.
NextBudgetLogout ==
  \/ NextBudget
  \/ logout

SpecBudgetLogout == InitStored /\ [][NextBudgetLogout]_vars

\* The fetches answered with data, and the effect on the summary.
Deliveries ==
  \/ summaryEffect
  \/ \E i \in 1..MaxInFlight : fetchSummaryDone(i, "ok")
  \/ \E i \in 1..MaxInFlight : fetchTransactionsDone(i, "ok")
  \/ \E i \in 1..MaxInFlight : fetchBudgetsDone(i, "ok")
  \/ \E i \in 1..MaxInFlight : fetchAvailableMonthsDone(i, "ok")

\* One session selecting months, every request of which is answered with
\* data: the browser runs the mount effect and delivers every response.
NextConverge ==
  \/ RestoreSession
  \/ \E m \in Range(SrvMonths) : selectMonth(m)
  \/ Deliveries

SpecConverge ==
  /\ InitStored
  /\ [][NextConverge]_vars
  /\ WF_vars(RestoreSession)
  /\ WF_vars(Deliveries)

\* ------------------------------------------------------------------ claims

ZeroTotals == [totalSpent |-> 0, totalBudget |-> 0, remaining |-> 0]

\* C1. Staleness guard: the response to a summary or transactions fetch
\* requested for a month that is not the current month when it arrives is
\* not written into summary or transactions.
StalenessGuard ==
  [][\A i \in 1..Len(net) :
       /\ (fetchSummaryDone(i, "ok") /\ Live(net[i]) /\ net[i].month # currentMonth)
            => summary' = summary
       /\ (fetchTransactionsDone(i, "ok") /\ Live(net[i])
             /\ net[i].month # currentMonth)
            => transactions' = transactions]_vars

\* C2. Optimistic edit: right after updateTransactionCategory(id, c) is
\* invoked, before any response, the transaction with that id has Category c.
OptimisticEdit ==
  [][\A id \in TransactionIds, c \in categories :
       updateTransactionCategory(id, c) => CategoryOf(transactions', id) = c]_vars

\* C3. Rollback on failure: when an update ends in a network error or a
\* non-2xx response, handling it leaves every transaction with the category
\* it had (the failed edit's category is nowhere in the list unless it was
\* there before) and shows the failure message.
RollbackOnFailure ==
  [][\A i \in 1..Len(net), o \in {"http", "network"} :
       (updateTransactionCategoryDone(i, o) /\ Live(net[i]))
         => /\ transactions' = transactions
            /\ alertMsg' = UpdateFailedMsg]_vars

\* C3, its case: an update of the row being edited has failed, the row is
\* still there with the category the service holds.
RollbackWitness ==
  /\ alertMsg = UpdateFailedMsg
  /\ HasTransaction(editingTransaction)
  /\ \A k \in 1..Len(transactions) :
       transactions[k].Category = srvCategory[transactions[k].ID]
  /\ \A k \in 1..Len(net) : net[k].kind # "update"

\* C4. Per-entity serialization: no two update requests for the same
\* transaction are awaiting their response together.
SerializedEdits ==
  \A i, j \in 1..Len(net) :
    (i # j /\ net[i].kind = "update" /\ net[j].kind = "update"
       /\ net[i].inst = net[j].inst)
      => net[i].id # net[j].id

\* C5. When an update is confirmed, the summary refetch it issues is for the
\* month that is current at that moment.
RefetchForCurrentMonth ==
  [][\A i \in 1..Len(net) :
       (updateTransactionCategoryDone(i, "ok") /\ Live(net[i]))
         => /\ net'[Len(net')].kind = "summary"
            /\ net'[Len(net')].month = currentMonth']_vars

\* C6. A failed save (network error or non-2xx) leaves the draft, the
\* confirmed map and the editing mode as they are and shows the failure
\* message.
FailedSaveKeepsDraft ==
  [][\A i \in 1..Len(net), o \in {"http", "network"} :
       (saveBudgetsDone(i, o) /\ Live(net[i]))
         => /\ tempBudgets' = tempBudgets
            /\ budgets' = budgets
            /\ editingBudgets' = editingBudgets
            /\ alertMsg' = SaveFailedMsg]_vars

\* C6, its case: a save has failed, the editor is open and holds a draft that
\* differs from the confirmed map.
FailedSaveWitness ==
  /\ alertMsg = SaveFailedMsg
  /\ editingBudgets
  /\ tempBudgets # budgets
  /\ budgets = srvBudgets

\* C7. A successful save sets the confirmed map to the draft that was sent
\* and issues exactly one request, a summary fetch; a save that does not
\* succeed issues none.
SuccessfulSaveConfirmsDraft ==
  [][\A i \in 1..Len(net), o \in Outcomes("save") :
       saveBudgetsDone(i, o)
         => IF o = "ok"
            THEN /\ Live(net[i]) => budgets' = net[i].body
                 /\ Len(net') = Len(net)
                 /\ SubSeq(net', 1, Len(net) - 1) = Remove(net, i)
                 /\ net'[Len(net')].kind = "summary"
            ELSE net' = Remove(net, i)]_vars

\* C7, its case: the save has succeeded, the confirmed map is the saved draft
\* (not the map first fetched) and the summary refetch is awaiting its response.
SuccessfulSaveWitness ==
  /\ alertMsg = SaveSucceededMsg
  /\ ~editingBudgets
  /\ budgets = srvBudgets
  /\ \E c \in categories : budgets[c] = 20
  /\ Len(net) = 1
  /\ net[1].kind = "summary"

\* C8. Draft isolation: within one store instance the confirmed map changes
\* only when a budgets fetch or a save succeeds.
DraftIsolation ==
  [][(budgets' # budgets /\ inst' = inst /\ isAuthenticated')
       => \E i \in 1..Len(net) :
            fetchBudgetsDone(i, "ok") \/ saveBudgetsDone(i, "ok")]_vars

\* C8, its case: the draft has been edited and a save answered with
\* success = false; the confirmed map is still the one fetched.
DraftIsolationWitness ==
  /\ editingBudgets
  /\ nSaves = 1
  /\ \A k \in 1..Len(net) : net[k].kind # "save"
  /\ alertMsg = NoAlert
  /\ \E c \in categories : c \in DOMAIN tempBudgets /\ tempBudgets[c] = 20
  /\ budgets = [c \in categories |-> 50]

\* C9. Logout discards the session's data: while signed out the store holds
\* nothing; a login starts from the empty store; and no response to a request
\* of an earlier store instance changes the state of the one mounted now.
LogoutDiscardsData ==
  /\ [](~isAuthenticated
          => /\ summary = EmptyMap
             /\ transactions = <<>>
             /\ budgets = EmptyMap
             /\ totals = ZeroTotals)
  /\ [][/\ (isAuthenticated' /\ ~isAuthenticated)
             => /\ summary' = EmptyMap
                /\ transactions' = <<>>
                /\ budgets' = EmptyMap
                /\ totals' = ZeroTotals
        /\ \A i \in 1..Len(net), o \in Outcomes("update") :
             (/\ net[i].inst # inst
              /\ \/ fetchSummaryDone(i, o)
                 \/ fetchTransactionsDone(i, o)
                 \/ fetchBudgetsDone(i, o)
                 \/ fetchAvailableMonthsDone(i, o)
                 \/ updateTransactionCategoryDone(i, o)
                 \/ saveBudgetsDone(i, o))
               => UNCHANGED <<summary, transactions, budgets, tempBudgets,
                              totals, availableMonths, currentMonth>>]_vars

\* C9, its case: a second session is signed in with an empty store while the
\* response to a summary fetch of the first session is still to come.
LogoutWitness ==
  /\ isAuthenticated
  /\ inst = 2
  /\ summary = EmptyMap
  /\ \E k \in 1..Len(net) : net[k].inst = 1 /\ net[k].kind = "summary"

\* C10. Every request of the signed-in store carries the header
\* Authorization: Bearer <token> of the session.
AuthorizedRequests ==
  \A k \in 1..Len(net) :
    (isAuthenticated /\ net[k].inst = inst)
      => net[k].auth = getAuthHeaders.Authorization

\* C11. Whenever a request of the store ends with an HTTP authorization error
\* (a 401 or 403, one of the non-2xx responses), the session is signed out:
\* isAuthenticated becomes false and the persisted token is erased.
ForcedLogout ==
  [][\A i \in 1..Len(net) :
       (/\ Live(net[i])
        /\ \/ fetchSummaryDone(i, "http")
           \/ fetchTransactionsDone(i, "http")
           \/ fetchBudgetsDone(i, "http")
           \/ fetchAvailableMonthsDone(i, "http")
           \/ updateTransactionCategoryDone(i, "http")
           \/ saveBudgetsDone(i, "http"))
         => /\ ~isAuthenticated'
            /\ storage' = NoToken]_vars

\* C12. Auto-selection: the user having selected no month, the first
\* successful months fetch with a non-empty list makes its first (newest)
\* element the current month, and a summary and a transactions fetch for that
\* month are issued when it was not the current one.
AutoSelection ==
  [][\A i \in 1..Len(net) :
       (/\ fetchAvailableMonthsDone(i, "ok")
        /\ Live(net[i])
        /\ nSelects = 0
        /\ availableMonths = <<>>
        /\ Len(ResponseData(net[i])) > 0)
         => LET newest == ResponseData(net[i])[1] IN
              /\ currentMonth' = newest
              /\ currentMonth # newest
                   => \A kind \in {"summary", "transactions"} :
                        \E k \in 1..Len(net') :
                          /\ net'[k].kind = kind
                          /\ net'[k].month = newest
                          /\ net'[k].inst = inst]_vars

\* C13. Explicit selection wins: the completion of a months fetch changes the
\* current month only when the user has selected none and no months list has
\* arrived before (so at most once in a session), never after a selection.
ExplicitSelectionWins ==
  [][\A i \in 1..Len(net), o \in Outcomes("months") :
       (fetchAvailableMonthsDone(i, o) /\ Live(net[i])
          /\ currentMonth' # currentMonth)
         => nSelects = 0 /\ availableMonths = <<>>]_vars

\* C13, its case: the user has selected 2024-02, every fetch of that
\* selection (the months fetch among them) has completed, and 2024-02 is
\* still the current month with its own transactions shown.
ExplicitSelectionWitness ==
  /\ isAuthenticated
  /\ nSelects = 1
  /\ net = <<>>
  /\ availableMonths = SrvMonths
  /\ currentMonth = "2024-02"
  /\ transactions = TransactionsOf("2024-02", srvCategory)

\* C14. Selecting a month issues a summary fetch and a transactions fetch for
\* it, and no budgets fetch and no months fetch.
SelectFetchesMonthData ==
  [][\A m \in Range(SrvMonths) :
       selectMonth(m)
         => /\ \A k \in (Len(net) + 1)..Len(net') :
                 /\ net'[k].kind \in {"summary", "transactions"}
                 /\ net'[k].month = m
            /\ \A kind \in {"summary", "transactions"} :
                 \E k \in (Len(net) + 1)..Len(net') : net'[k].kind = kind]_vars

\* C15. In every state totals is the fold of the summary held: totalSpent is
\* the sum of spent and totalBudget the sum of budget over its categories.
TotalsFollowSummary ==
  /\ totals.totalSpent =
       SumOver([c \in DOMAIN summary |-> summary[c].spent], DOMAIN summary)
  /\ totals.totalBudget =
       SumOver([c \in DOMAIN summary |-> summary[c].budget], DOMAIN summary)

\* The orders in which the keys of obj can be iterated.
KeyOrders(obj) ==
  {p \in [1..Cardinality(DOMAIN obj) -> DOMAIN obj] :
     \A a, b \in DOMAIN p : a # b => p[a] # p[b]}

\* C16. For every summary, calculateTotals gives totalSpent = the sum of
\* spent (as a number) and remaining = totalBudget - totalSpent, the same in
\* every iteration order of the categories: the totals it has set are the
\* result for every order; and the totals held satisfy
\* remaining = totalBudget - totalSpent in every state.
TotalsOrderIndependent ==
  /\ EffectsFlushed
       => /\ \A p \in KeyOrders(summary) : calculateTotalsIn(summary, p) = totals
          /\ totals.totalSpent =
               Fl(SumOver([c \in DOMAIN summary |-> summary[c].spent],
                          DOMAIN summary))
  /\ totals.remaining = Fl(totals.totalBudget - totals.totalSpent)

\* C17. A read that fails (network error or non-2xx response) leaves summary,
\* transactions, budgets, tempBudgets, availableMonths, currentMonth and
\* totals as they were.
FailedReadKeepsState ==
  [][\A i \in 1..Len(net), o \in {"http", "network"} :
       (\/ fetchSummaryDone(i, o)
        \/ fetchTransactionsDone(i, o)
        \/ fetchBudgetsDone(i, o)
        \/ fetchAvailableMonthsDone(i, o))
         => UNCHANGED <<summary, transactions, budgets, tempBudgets,
                        availableMonths, currentMonth, totals>>]_vars

\* C17, its case: the user has selected 2024-02 and the fetches of that
\* selection have all completed, the budgets and months ones with data and
\* the summary and transactions ones without: the store still shows what it
\* held for 2024-03.
FailedReadWitness ==
  /\ isAuthenticated
  /\ inst = 1
  /\ nSelects = 1
  /\ currentMonth = "2024-02"
  /\ net = <<>>
  /\ ~loading
  /\ summary = SummaryOf("2024-03", srvCategory, srvBudgets)
  /\ transactions = TransactionsOf("2024-03", srvCategory)
  /\ totals = calculateTotals(summary)
  /\ budgets = srvBudgets
  /\ availableMonths = SrvMonths

\* C18. Every write that does not succeed (network error, non-2xx response,
\* or a 2xx response with success = false) shows a failure message.
UnsuccessfulWriteSurfaces ==
  [][\A i \in 1..Len(net), o \in {"rejected", "http", "network"} :
       /\ (updateTransactionCategoryDone(i, o) /\ Live(net[i]))
            => alertMsg' = UpdateFailedMsg
       /\ (saveBudgetsDone(i, o) /\ Live(net[i]))
            => alertMsg' = SaveFailedMsg]_vars

\* C19. Session persistence round trip: login(t) persists t and logout
\* erases it; loading the page again keeps what is persisted and starts
\* signed out; restoring then signs in with the persisted token when there
\* is one, and stays signed out with token null when there is none.
SessionRoundTrip ==
  [][/\ \A t \in TokenStrings : login(t) => storage' = t
     /\ logout => storage' = NoToken
     /\ restart => /\ storage' = storage
                    /\ ~isAuthenticated'
                    /\ token' = NoToken
     /\ RestoreSession
          => IF storage # NoToken
             THEN isAuthenticated' /\ token' = storage
             ELSE ~isAuthenticated' /\ token' = NoToken]_vars

\* C20. In every state of the session, getAuthHeaders() holds the header
\* Authorization: Bearer <token> exactly when isAuthenticated is true.
HeadersMatchSession ==
  isAuthenticated <=> getAuthHeaders.Authorization = "Bearer " \o token

\* Two requests are the same call: they differ at most in whether the service
\* has applied them.
SameRequest(a, b) ==
  [a EXCEPT !.answered = FALSE] = [b EXCEPT !.answered = FALSE]

\* How many of the requests awaiting their response are this call.
InFlight(queue, r) ==
  Cardinality({j \in 1..Len(queue) : SameRequest(queue[j], r)})

\* C21. Session gate: no step that leaves the session signed out issues a
\* request; every request awaiting its response was already awaiting it.
SessionGate ==
  [][~isAuthenticated'
       => \A k \in 1..Len(net') :
            InFlight(net', net'[k]) <= InFlight(net, net'[k])]_vars

\* How severe a progress-bar colour is.
Severity(bar) ==
  CASE bar = "bg-green-500" -> 1
    [] bar = "bg-yellow-500" -> 2
    [] bar = "bg-red-500" -> 3

\* C22. The colour of the progress bars is monotonic in the percentage used,
\* and the limits belong to the lower band: 70 is green, 90 is yellow and
\* every percentage above 90 is red.
StatusMonotonic ==
  /\ \A c, d \in DOMAIN summary :
       summary[c].percentage_used < summary[d].percentage_used
         => Severity(Dashboard[c].bar) <= Severity(Dashboard[d].bar)
  /\ \A c \in DOMAIN summary :
       /\ summary[c].percentage_used = 70 => Dashboard[c].bar = "bg-green-500"
       /\ summary[c].percentage_used = 90 => Dashboard[c].bar = "bg-yellow-500"
       /\ summary[c].percentage_used > 90 => Dashboard[c].bar = "bg-red-500"

\* C22, its case: the Dashboard shows one category at exactly 70 percent with
\* a green bar and another at exactly 90 percent with a yellow bar.
StatusWitness ==
  /\ EffectsFlushed
  /\ summary # EmptyMap
  /\ summary["Groceries"].percentage_used = 70
  /\ Dashboard["Groceries"].bar = "bg-green-500"
  /\ summary["Shopping"].percentage_used = 90
  /\ Dashboard["Shopping"].bar = "bg-yellow-500"

\* C23. The progress bar of every category that is over budget is red,
\* whatever its percentage used, and so wherever the icon of a card is the
\* alert icon its bar is red.
OverBudgetIsRed ==
  \A c \in DOMAIN summary :
    /\ summary[c].over_budget => Dashboard[c].bar = "bg-red-500"
    /\ Dashboard[c].icon = "AlertCircle" => Dashboard[c].bar = "bg-red-500"

\* The store shows what the service holds for the month selected.
Converged ==
  /\ isAuthenticated
  /\ summary = SummaryOf(currentMonth, srvCategory, srvBudgets)
  /\ transactions = TransactionsOf(currentMonth, srvCategory)

\* C24. Convergence: once the user selects no more months and every request
\* has been answered with data, summary and transactions hold, from then on,
\* what the service returned for the month selected.
Convergence == <>[]Converged

\* C25. While the budget editor is open the draft changes only through the
\* input of a category or through cancel.
DraftChangesByUserOnly ==
  [][(editingBudgets /\ tempBudgets' # tempBudgets)
       => \/ cancelBudgetEdit
          \/ \E c \in categories, v \in BudgetValues : editDraft(c, v)]_vars

\* C26. Whenever the budget editor is closed, the draft equals the confirmed
\* map.
ClosedEditorDraftIsConfirmed ==
  (isAuthenticated /\ ~editingBudgets) => tempBudgets = budgets

\* C27. A confirmed edit changes the Category of the transactions with the
\* matching ID to the new category and nothing else: the list keeps its
\* length and order, every other transaction and every other field; so of
\* two edits of distinct transactions in flight together, whichever is
\* confirmed first, neither undoes the other.
ConfirmedEditChangesOneCategory ==
  [][\A i \in 1..Len(net) :
       (updateTransactionCategoryDone(i, "ok") /\ Live(net[i]))
         => /\ Len(transactions') = Len(transactions)
            /\ \A k \in 1..Len(transactions) :
                 /\ transactions'[k].ID = transactions[k].ID
                 /\ transactions'[k].Date = transactions[k].Date
                 /\ transactions'[k].Amount = transactions[k].Amount
                 /\ transactions'[k].Category =
                      IF transactions[k].ID = net[i].id
                      THEN net[i].category
                      ELSE transactions[k].Category]_vars

\* C27, its case: two edits, of transaction 1 and of transaction 2, have both
\* been confirmed; the list shows both at the new category, as the service
\* holds them.
ConcurrentEditsWitness ==
  /\ isAuthenticated
  /\ nEdits = 2
  /\ \A k \in 1..Len(net) : net[k].kind # "update"
  /\ alertMsg = NoAlert
  /\ HasTransaction(1)
  /\ HasTransaction(2)
  /\ CategoryOf(transactions, 1) = "Shopping"
  /\ CategoryOf(transactions, 2) = "Shopping"
  /\ \A id \in {1, 2} : srvCategory[id] = "Shopping"

\* C28. While an upload of the store is awaiting its response, loading is
\* true.
LoadingDuringUpload ==
  (isAuthenticated
     /\ \E k \in 1..Len(net) : net[k].kind = "upload" /\ net[k].inst = inst)
    => loading

\* C29. A successful upload issues three requests: a summary fetch and a
\* transactions fetch for the month that is current, and a months fetch; an
\* upload that does not succeed issues none and leaves summary, transactions,
\* budgets, availableMonths and currentMonth as they were; either way loading
\* is false when the upload has finished.
UploadRefreshesCurrentMonth ==
  [][\A i \in 1..Len(net), o \in Outcomes("upload") :
       (handleFileUploadDone(i, o) /\ Live(net[i]))
         => /\ ~loading'
            /\ IF o = "ok"
               THEN /\ Len(net') = Len(net) + 2
                    /\ {net'[k].kind : k \in Len(net)..Len(net')}
                         = {"summary", "transactions", "months"}
                    /\ \A k \in Len(net)..Len(net') :
                         net'[k].kind \in {"summary", "transactions"}
                           => net'[k].month = currentMonth'
               ELSE /\ Len(net') = Len(net) - 1
                    /\ UNCHANGED <<summary, transactions, budgets,
                                   availableMonths, currentMonth>>]_vars

====
